---- MODULE Spec2Model ----
(***************************************************************************)
(* Model of the prep-pad cooking session backend:                          *)
(*   - routes/recipe_agent.py : start_cooking_session, process_voice_command*)
(*   - agents/voice_assistant.py : VoiceCookingAssistant (command dispatch, *)
(*     step navigation, pause/resume, recipe modification handlers)         *)
(*   - agents/recipe_modifier.py : RecipeModifier (modify_recipe and its    *)
(*     local fallback transform)                                            *)
(* Strings are Python strings; TLC evaluates Len, SubSeq and \o on them.    *)
(*                                                                         *)
(* Three specifications:                                                   *)
(*   Spec       sessions over every recipe layout of at most MaxSteps      *)
(*              steps, driven by the requests that make no service call    *)
(*   ModSpec    every request, service calls included, on one recipe       *)
(*              layout with every serving count up to MaxServings          *)
(*   InterpSpec the command dispatch alone, run on every text of Commands  *)
(***************************************************************************)
EXTENDS Integers, Sequences, FiniteSets, TLC

VARIABLES
    recipes,      \* the Recipe table: a sequence of rows, row i has id i
    session,      \* the CookingSession row (id = 0: not created yet)
    response,     \* what the last request returned to the caller (or raised)
    completed,    \* history: _handle_next_step has run past the last step
    nAdvance,     \* history: number of 'next' commands handled so far
    onlyAdvance,  \* history: every command handled so far was a 'next'
    before,       \* history: session row, completed, Recipe table, nAdvance and
                  \* onlyAdvance before the last request
    beforePause,  \* history: the session row before the 'pause' that the last request was,
                  \* or that the last request ('resume') followed
    llmRun,       \* history: what the service did in the last request's calls
    icommand,     \* interpreter run: the raw command being classified
    iroute,       \* interpreter run: the route chosen for icommand
    inflight,     \* voice_command requests running in worker threads: where each
                  \* one is, the session row its own database session loaded, and
                  \* (history) the committed row when the first of them loaded
    applied       \* function run: the function applied to the drawn input and
                  \* what it returned

vars == <<recipes, session, response, completed, nAdvance, onlyAdvance,
          before, beforePause, llmRun, icommand, iroute, inflight, applied>>

\* Python's None where a string is expected (Optional[str] fields).
None == "<None>"

\* str(x) / f"{x}" of an Optional[str]
PyStr(x) == IF x = None THEN "None" ELSE x

\***************************************************************************
\* Bounds of the model
\***************************************************************************
MaxSteps == 3        \* prep steps + cook steps of a recipe
MaxServings == 2     \* servings of a recipe a user created
MaxRecipes == 2      \* rows of the Recipe table
MaxFragments == 2    \* fragments of a command text
MaxRequests == 2     \* voice_command requests in worker threads at one time
MaxCurrent == 3      \* servings of the recipe a serving adjustment is computed for
MaxSubstitutions == 2 \* entries of a substitution list given to the local transform

\***************************************************************************
\* Python string primitives
\***************************************************************************
Upper == "ABCDEFGHIJKLMNOPQRSTUVWXYZ"
LowerAlpha == "abcdefghijklmnopqrstuvwxyz"
Digits == "0123456789"

CharAt(s, i) == SubSeq(s, i, i)

\* str.lower() on one character
LowerChar(c) ==
    IF \E i \in 1..Len(Upper) : CharAt(Upper, i) = c
    THEN CharAt(LowerAlpha, CHOOSE i \in 1..Len(Upper) : CharAt(Upper, i) = c)
    ELSE c

RECURSIVE lower(_)
lower(s) == IF Len(s) = 0 THEN s
            ELSE LowerChar(CharAt(s, 1)) \o lower(SubSeq(s, 2, Len(s)))

RECURSIVE lstrip(_)
lstrip(s) == IF Len(s) > 0 /\ CharAt(s, 1) = " "
             THEN lstrip(SubSeq(s, 2, Len(s))) ELSE s

RECURSIVE rstrip(_)
rstrip(s) == IF Len(s) > 0 /\ CharAt(s, Len(s)) = " "
             THEN rstrip(SubSeq(s, 1, Len(s) - 1)) ELSE s

strip(s) == rstrip(lstrip(s))

\* Python's `kw in s` on strings
In(kw, s) == \E i \in 1..(Len(s) - Len(kw) + 1) : SubSeq(s, i, i + Len(kw) - 1) = kw

StartsAt(s, i, kw) == i + Len(kw) - 1 <= Len(s) /\ SubSeq(s, i, i + Len(kw) - 1) = kw

IsDigit(c) == \E i \in 1..Len(Digits) : CharAt(Digits, i) = c

DigitVal(c) == (CHOOSE i \in 1..Len(Digits) : CharAt(Digits, i) = c) - 1

\* int() of a string of decimal digits
RECURSIVE int(_)
int(s) == IF Len(s) = 0 THEN 0
          ELSE 10 * int(SubSeq(s, 1, Len(s) - 1)) + DigitVal(CharAt(s, Len(s)))

\* str() of a natural number
RECURSIVE str(_)
str(n) == IF n < 10 THEN CharAt(Digits, n + 1)
          ELSE str(n \div 10) \o CharAt(Digits, (n % 10) + 1)

\* str.replace(old, new): every non-overlapping occurrence, left to right
RECURSIVE replace(_, _, _)
replace(s, old, new) ==
    IF Len(old) = 0
    THEN IF Len(s) = 0 THEN new
         ELSE new \o CharAt(s, 1) \o replace(SubSeq(s, 2, Len(s)), old, new)
    ELSE IF Len(s) < Len(old) THEN s
    ELSE IF SubSeq(s, 1, Len(old)) = old
         THEN new \o replace(SubSeq(s, Len(old) + 1, Len(s)), old, new)
         ELSE CharAt(s, 1) \o replace(SubSeq(s, 2, Len(s)), old, new)

RECURSIVE gcd(_, _)
gcd(a, b) == IF b = 0 THEN a ELSE gcd(b, a % b)

Min(S) == CHOOSE x \in S : \A y \in S : x <= y
Max(a, b) == IF a >= b THEN a ELSE b

\***************************************************************************
\* re.search(r'remove (.+?)(?: from|$)', command_lower)
\* The match starts at the leftmost "remove " that has a character after it;
\* the lazy group takes the fewest characters (at least one) that are
\* followed by " from" or by the end of the string.
\***************************************************************************
RemoveStarts(s) == {i \in 1..Len(s) : StartsAt(s, i, "remove ") /\ i + 7 <= Len(s)}

remove_match(s) == RemoveStarts(s) # {}

remove_group(s) ==
    LET j == Min(RemoveStarts(s)) + 7
        k == Min({n \in 1..(Len(s) - j + 1) :
                     StartsAt(s, j + n, " from") \/ j + n = Len(s) + 1})
    IN SubSeq(s, j, j + k - 1)

\***************************************************************************
\* re.search(r'(\d+)\s*(?:serving|people|person|servings)', command_lower)
\***************************************************************************
ServingWords == {"serving", "people", "person", "servings"}

RECURSIVE SkipSpaces(_, _)
SkipSpaces(s, i) == IF i <= Len(s) /\ CharAt(s, i) = " " THEN SkipSpaces(s, i + 1) ELSE i

RECURSIVE DigitsEnd(_, _)
\* the index just after the run of digits that begins at i
DigitsEnd(s, i) == IF i <= Len(s) /\ IsDigit(CharAt(s, i)) THEN DigitsEnd(s, i + 1) ELSE i

ServingStarts(s) ==
    {i \in 1..Len(s) :
        /\ IsDigit(CharAt(s, i))
        /\ \E w \in ServingWords : StartsAt(s, SkipSpaces(s, DigitsEnd(s, i)), w)}

serving_match(s) == ServingStarts(s) # {}

serving_group(s) ==
    LET i == Min(ServingStarts(s)) IN SubSeq(s, i, DigitsEnd(s, i) - 1)

\***************************************************************************
\* Command dispatch: VoiceCookingAssistant.process_voice_command and the
\* phrase table VoiceCookingAssistant._process_voice_command.
\* A route names the branch that decided (tier) and the handler it calls.
\***************************************************************************
Route(tier, handler, arg) == [tier |-> tier, handler |-> handler, arg |-> arg]

outer_dietary_keywords == {"vegan", "vegetarian", "gluten-free", "dairy-free"}
serving_keywords == {"adjust", "change", "scale", "serving", "double", "half"}

\* _process_voice_command: `command in [...]` tests on the lowered, stripped text
phrase_handler(command) ==
    LET c == strip(lower(command)) IN
    IF c \in {"next", "next step", "continue"} THEN Route("phrase", "_handle_next_step", "")
    ELSE IF c \in {"repeat", "say again", "repeat step"} THEN Route("phrase", "_handle_repeat_step", "")
    ELSE IF c \in {"what prep", "prep", "preparation"} THEN Route("phrase", "_handle_prep_query", "")
    ELSE IF c \in {"pause", "stop"} THEN Route("phrase", "_handle_pause", "")
    ELSE IF c \in {"resume", "continue cooking"} THEN Route("phrase", "_handle_resume", "")
    ELSE IF c \in {"time", "how long", "time left"} THEN Route("phrase", "_handle_time_query", "")
    ELSE IF c \in {"timer info", "timer help"} THEN Route("phrase", "_handle_timer_info", "")
    ELSE IF c \in {"start timer", "begin timer"} THEN Route("phrase", "_handle_start_timer", "")
    ELSE IF c \in {"pause timer", "stop timer"} THEN Route("phrase", "_handle_pause_timer", "")
    ELSE IF c \in {"resume timer", "restart timer", "continue timer"} THEN Route("phrase", "_handle_resume_timer", "")
    ELSE IF c \in {"ingredients", "what ingredients"} THEN Route("phrase", "_handle_ingredients_query", "")
    ELSE IF c \in {"make vegetarian", "vegetarian version", "make it vegetarian", "vegetarian"}
         THEN Route("phrase", "_handle_make_vegetarian", "vegetarian")
    ELSE IF c \in {"make vegan", "vegan version", "make it vegan", "vegan"}
         THEN Route("phrase", "_handle_make_vegan", "vegan")
    ELSE IF c \in {"make gluten free", "gluten free version", "make it gluten free", "gluten free", "gluten-free"}
         THEN Route("phrase", "_handle_make_gluten_free", "gluten-free")
    ELSE IF c \in {"make dairy free", "dairy free version", "make it dairy free", "dairy free", "dairy-free"}
         THEN Route("phrase", "_handle_make_dairy_free", "dairy-free")
    ELSE IF c \in {"scale up", "double recipe", "make more"} THEN Route("phrase", "_handle_scale_recipe", "2.0")
    ELSE IF c \in {"scale down", "half recipe", "make less"} THEN Route("phrase", "_handle_scale_recipe", "0.5")
    ELSE IF c \in {"substitute", "replace ingredient", "swap ingredient"}
         THEN Route("phrase", "_handle_substitute_ingredient", "")
    ELSE Route("unknown", "_handle_unknown_command", c)

process_voice_command(command) ==
    LET command_lower == strip(lower(command)) IN
    IF remove_match(command_lower)
    THEN Route("removal", "_handle_ingredient_removal", strip(remove_group(command_lower)))
    ELSE IF \E keyword \in outer_dietary_keywords : In(keyword, command_lower)
    THEN IF In("vegan", command_lower) THEN Route("dietary", "_handle_make_vegan", "vegan")
         ELSE IF In("vegetarian", command_lower)
              THEN Route("dietary", "_handle_make_vegetarian", "vegetarian")
         ELSE IF In("gluten-free", command_lower) \/ In("gluten free", command_lower)
              THEN Route("dietary", "_handle_make_gluten_free", "gluten-free")
         ELSE IF In("dairy-free", command_lower) \/ In("dairy free", command_lower)
              THEN Route("dietary", "_handle_make_dairy_free", "dairy-free")
         ELSE Route("dietary", "return None", "")
    ELSE IF \E keyword \in serving_keywords : In(keyword, command_lower)
    THEN Route("serving", "_handle_serving_adjustment", command)
    ELSE phrase_handler(command)

\***************************************************************************
\* Commands the interpreter is run on: every phrase of the phrase table,
\* and every text of up to MaxFragments fragments joined by single spaces.
\***************************************************************************
Fragments ==
    {"remove", "garlic", "from the sauce", "vegan", "vegetarian", "gluten-free",
     "gluten free", "dairy-free", "dairy free", "change to", "double", "half",
     "scale", "adjust", "4 servings", "next", "pause", "make it", "please",
     "asdf", "Next ", " STOP", "timer", "recipe"}

RECURSIVE Join(_)
Join(ws) == IF Len(ws) = 0 THEN ""
            ELSE IF Len(ws) = 1 THEN ws[1]
            ELSE ws[1] \o " " \o Join(Tail(ws))

FragmentCommands ==
    {Join(ws) : ws \in UNION {[1..n -> Fragments] : n \in 1..MaxFragments}}

PhraseCommands ==
    {"next", "next step", "continue", "repeat", "say again", "repeat step",
     "what prep", "prep", "preparation", "pause", "stop", "resume",
     "continue cooking", "time", "how long", "time left", "timer info",
     "timer help", "start timer", "begin timer", "pause timer", "stop timer",
     "resume timer", "restart timer", "continue timer", "ingredients",
     "what ingredients", "make vegetarian", "vegetarian version",
     "make it vegetarian", "make vegan", "vegan version", "make it vegan",
     "make gluten free", "gluten free version", "make it gluten free",
     "make dairy free", "dairy free version", "make it dairy free",
     "scale up", "double recipe", "make more", "scale down", "half recipe",
     "make less", "substitute", "replace ingredient", "swap ingredient",
     "remove garlic from the sauce", "how long", ""}

Commands == FragmentCommands \cup PhraseCommands

NoRoute == Route("", "", "")

\***************************************************************************
\* Data: schemas.OptimizedRecipe / models.Recipe and models.CookingSession
\***************************************************************************
Ingredient(name, amount, unit, notes) ==
    [name |-> name, amount |-> amount, unit |-> unit, notes |-> notes]

PrepStep(instruction, time_estimate, category) ==
    [instruction |-> instruction, time_estimate |-> time_estimate, category |-> category]

CookStep(step_number, instruction, time_estimate, parallel_tasks) ==
    [step_number |-> step_number, instruction |-> instruction,
     time_estimate |-> time_estimate, parallel_tasks |-> parallel_tasks]

OptimizedRecipe(title, ingredients, prep_phase, cook_phase, servings) ==
    [title |-> title, ingredients |-> ingredients, prep_phase |-> prep_phase,
     cook_phase |-> cook_phase, total_time |-> 40, prep_time |-> 10,
     cook_time |-> 30, servings |-> servings, difficulty |-> "easy"]

CookingSession(id, recipe_id, current_step, current_phase, is_active) ==
    [id |-> id, recipe_id |-> recipe_id, current_step |-> current_step,
     current_phase |-> current_phase, is_active |-> is_active]

NoSession == CookingSession(0, 0, None, None, FALSE)

\* Recipes a user may have created (create_recipe): instruction texts come
\* from a small set, so two steps of one recipe may carry the same text.
Instructions == {"Chop the onions", "Simmer for 12 minutes"}

BoundedSeq(S, n) == UNION {[1..k -> S] : k \in 0..n}

PrepPhases(n) == {[i \in 1..Len(t) |-> PrepStep(t[i], 5, "chopping")] :
                     t \in BoundedSeq(Instructions, n)}

CookPhases(n) == {[i \in 1..Len(t) |-> CookStep(i, t[i], 12, <<>>)] :
                     t \in BoundedSeq(Instructions, n)}

PantryIngredients ==
    <<Ingredient("butter", "2", "tbsp", None), Ingredient("salt", "to taste", None, None)>>

\* every recipe of at most MaxSteps steps, with the given servings
RecipeInputs(servings) ==
    {OptimizedRecipe("Soup", PantryIngredients, pc[1], pc[2], n) :
        pc \in {x \in PrepPhases(MaxSteps) \X CookPhases(MaxSteps) :
                    Len(x[1]) + Len(x[2]) <= MaxSteps},
        n \in servings}

\* one layout (one prep step, one cook step) with every serving count
SmallRecipeInputs ==
    {OptimizedRecipe("Soup", PantryIngredients, p, c, n) :
        p \in {x \in PrepPhases(1) : Len(x) = 1 /\ x[1].instruction = "Chop the onions"},
        c \in {x \in CookPhases(1) : Len(x) = 1 /\ x[1].instruction = "Simmer for 12 minutes"},
        n \in 1..MaxServings}

\***************************************************************************
\* Responses: the dict a handler returns, or the exception that reaches
\* the route (kind = "raised", response = the exception's message). Absent
\* keys are "absent" / 0. handler records which handler produced the
\* response, and new_servings the serving count the handler computed for
\* its message (_handle_scale_recipe, _handle_serving_adjustment); neither
\* is a key of the dict.
\***************************************************************************
Response(handler, text) ==
    [kind |-> "returned", handler |-> handler, response |-> text,
     current_step |-> "absent", current_phase |-> "absent",
     is_complete |-> "absent", is_active |-> "absent", success |-> "absent",
     new_recipe_id |-> 0, new_servings |-> 0]

Raised(handler, error) == [Response(handler, error) EXCEPT !.kind = "raised"]

NoResponse == [Response("", "") EXCEPT !.kind = "none"]

Bool(b) == IF b THEN "True" ELSE "False"

\***************************************************************************
\* VoiceCookingAssistant._detect_timer_in_instruction: eight patterns tried
\* in order with re.IGNORECASE; each is a list of literal words separated by
\* \s*, then (\d+), \s*, and the unit. A pattern's match is its leftmost
\* one; the first pattern whose number n has 0 < n <= 300 decides. The
\* result 0 stands for None (the source returns None or a value >= 1).
\***************************************************************************
RECURSIVE NumberAfter(_, _, _)
\* where the digits start when `words` match from i on, or 0
NumberAfter(s, i, words) ==
    IF Len(words) = 0 THEN (IF i <= Len(s) /\ IsDigit(CharAt(s, i)) THEN i ELSE 0)
    ELSE IF StartsAt(s, i, Head(words))
         THEN NumberAfter(s, SkipSpaces(s, i + Len(Head(words))), Tail(words))
         ELSE 0

PatternStarts(s, words, unit) ==
    {i \in 1..Len(s) :
        /\ NumberAfter(s, i, words) # 0
        /\ StartsAt(s, SkipSpaces(s, DigitsEnd(s, NumberAfter(s, i, words))), unit)}

\* int(match.group(1)) of the pattern's leftmost match, or -1 without a match
pattern_time(s, words, unit) ==
    IF PatternStarts(s, words, unit) = {} THEN -1
    ELSE LET d == NumberAfter(s, Min(PatternStarts(s, words, unit)), words)
         IN int(SubSeq(s, d, DigitsEnd(s, d) - 1))

MaxTimerMinutes == 300

time_patterns ==
    << <<<<>>, "minute">>, <<<<>>, "min">>, <<<<>>, "min">>,
       <<<<"for">>, "minute">>, <<<<"cook", "for">>, "minute">>,
       <<<<"bake", "for">>, "minute">>, <<<<"simmer", "for">>, "minute">>,
       <<<<"boil", "for">>, "minute">> >>

RECURSIVE first_time_in_range(_, _)
first_time_in_range(s, patterns) ==
    IF Len(patterns) = 0 THEN 0
    ELSE LET time == pattern_time(s, Head(patterns)[1], Head(patterns)[2]) IN
         IF 0 < time /\ time <= MaxTimerMinutes THEN time
         ELSE first_time_in_range(s, Tail(patterns))

detect_timer_in_instruction(instruction) == first_time_in_range(lower(instruction), time_patterns)

\* re.search on None raises TypeError
timer_raises(instruction) == instruction = None

timer_message(timer_minutes) ==
    "This step requires " \o str(timer_minutes) \o " minute"
        \o (IF timer_minutes # 1 THEN "s" ELSE "")
        \o ". A timer will be available to help you track the time."

\* _enhance_step_with_timer_info as _handle_next_step uses it: the text added
\* to the response when the new step has a timer
timer_suffix(instruction) ==
    IF detect_timer_in_instruction(instruction) # 0
    THEN " " \o timer_message(detect_timer_in_instruction(instruction))
    ELSE ""

\***************************************************************************
\* Step navigation: VoiceCookingAssistant._handle_next_step and the index
\* lookups it uses. Indexes are zero-based as in the source; a sequence s of
\* the model holds s[i + 1] where the source holds s[i].
\***************************************************************************
get_current_index(current_step, phase) ==
    IF current_step = None \/ current_step = "" \/ Len(phase) = 0
    THEN 0
    ELSE IF \E i \in 1..Len(phase) : phase[i].instruction = current_step
         THEN Min({i \in 1..Len(phase) : phase[i].instruction = current_step}) - 1
         ELSE 0

get_current_prep_index(s, recipe) == get_current_index(s.current_step, recipe.prep_phase)

get_current_cook_index(s, recipe) == get_current_index(s.current_step, recipe.cook_phase)

\* The session row after _handle_next_step
next_step_session(s, recipe) ==
    IF Len(recipe.prep_phase) = 0 /\ Len(recipe.cook_phase) = 0 THEN s
    ELSE IF s.current_phase = "prep" /\ Len(recipe.prep_phase) > 0
    THEN IF get_current_prep_index(s, recipe) < Len(recipe.prep_phase) - 1
         THEN [s EXCEPT !.current_step =
                  recipe.prep_phase[get_current_prep_index(s, recipe) + 2].instruction]
         ELSE IF Len(recipe.cook_phase) > 0
              THEN [s EXCEPT !.current_phase = "cook",
                             !.current_step = recipe.cook_phase[1].instruction]
              ELSE [s EXCEPT !.current_phase = "cook", !.is_active = FALSE]
    ELSE IF s.current_phase = "cook" /\ Len(recipe.cook_phase) > 0
    THEN IF get_current_cook_index(s, recipe) < Len(recipe.cook_phase) - 1
         THEN [s EXCEPT !.current_step =
                  recipe.cook_phase[get_current_cook_index(s, recipe) + 2].instruction]
         ELSE [s EXCEPT !.is_active = FALSE]
    ELSE s

\* Whether this call of _handle_next_step ran one of its two end-of-recipe
\* branches ("Prep complete! No cooking steps available." / "Congratulations!")
next_step_finishes(s, recipe) ==
    \/ /\ s.current_phase = "prep" /\ Len(recipe.prep_phase) > 0
       /\ ~(get_current_prep_index(s, recipe) < Len(recipe.prep_phase) - 1)
       /\ Len(recipe.cook_phase) = 0
    \/ /\ ~(s.current_phase = "prep" /\ Len(recipe.prep_phase) > 0)
       /\ s.current_phase = "cook" /\ Len(recipe.cook_phase) > 0
       /\ ~(get_current_cook_index(s, recipe) < Len(recipe.cook_phase) - 1)

next_step_text(s, recipe) ==
    IF Len(recipe.prep_phase) = 0 /\ Len(recipe.cook_phase) = 0
    THEN "No recipe steps available. Please parse a recipe first."
    ELSE IF s.current_phase = "prep" /\ Len(recipe.prep_phase) > 0
    THEN IF get_current_prep_index(s, recipe) < Len(recipe.prep_phase) - 1
         THEN "Next prep step: " \o next_step_session(s, recipe).current_step
                  \o timer_suffix(next_step_session(s, recipe).current_step)
         ELSE IF Len(recipe.cook_phase) > 0
              THEN "Prep complete! Starting cooking phase. Step 1: "
                       \o next_step_session(s, recipe).current_step
                       \o timer_suffix(next_step_session(s, recipe).current_step)
              ELSE "Prep complete! No cooking steps available."
    ELSE IF s.current_phase = "cook" /\ Len(recipe.cook_phase) > 0
    THEN IF get_current_cook_index(s, recipe) < Len(recipe.cook_phase) - 1
         THEN "Step " \o str(get_current_cook_index(s, recipe) + 2) \o ": "
                  \o next_step_session(s, recipe).current_step
                  \o timer_suffix(next_step_session(s, recipe).current_step)
         ELSE "Congratulations! Your recipe is complete. Enjoy your meal!"
    ELSE "No more steps available in this phase."

next_step_response(s, recipe) ==
    LET t == next_step_session(s, recipe) IN
    [Response("_handle_next_step", next_step_text(s, recipe)) EXCEPT
        !.current_step = t.current_step,
        !.current_phase = t.current_phase,
        !.is_complete =
            IF Len(recipe.prep_phase) = 0 /\ Len(recipe.cook_phase) = 0
            THEN "False" ELSE Bool(~t.is_active)]

\* _handle_pause / _handle_resume
pause_session(s) == [s EXCEPT !.is_active = FALSE]

pause_response(s) ==
    [Response("_handle_pause", "Cooking session paused. Say 'resume' when ready to continue.")
        EXCEPT !.is_active = "False"]

\* A faulty resume that forgets to set the flag; the pause/resume round
\* trip is shown to depend on the assignment in _handle_resume.
resume_session_forgets_flag(s) == s

resume_session(s) == [s EXCEPT !.is_active = TRUE]

resume_response(s) ==
    [Response("_handle_resume", "Resuming cooking. Current step: " \o PyStr(s.current_step))
        EXCEPT !.is_active = "True", !.current_step = s.current_step]

\***************************************************************************
\* Floats of the recipe modifier. A float is the exact fraction <<num, den>>
\* in lowest terms; <<0, 1>> is 0.0, which Python treats like None in the
\* truth tests the source makes on scaling_factor.
\***************************************************************************
Frac(n, d) == IF n = 0 THEN <<0, 1>> ELSE <<n \div gcd(n, d), d \div gcd(n, d)>>

NoFactor == <<0, 1>>

\* str(float): exact for halves and quarters; a value with no short
\* decimal form is rendered by its fraction, which is one text per value.
float_str(f) ==
    IF f[2] = 1 THEN str(f[1]) \o ".0"
    ELSE IF f[2] = 2 THEN str(f[1] \div 2) \o ".5"
    ELSE IF f[2] = 4 THEN str(f[1] \div 4) \o (IF f[1] % 4 = 1 THEN ".25" ELSE ".75")
    ELSE "repr(" \o str(f[1]) \o "/" \o str(f[2]) \o ")"

\* int(float): truncation
float_int(f) == f[1] \div f[2]

\* re.findall(r'\d+\.?\d*', amount): the first number in the text, if any
NumberStarts(amount) == {i \in 1..Len(amount) : IsDigit(CharAt(amount, i))}

has_number(amount) == NumberStarts(amount) # {}

RECURSIVE pow10(_)
pow10(k) == IF k = 0 THEN 1 ELSE 10 * pow10(k - 1)

first_number(amount) ==
    LET i == Min(NumberStarts(amount))
        j == DigitsEnd(amount, i)
        whole == int(SubSeq(amount, i, j - 1))
    IN IF j <= Len(amount) /\ CharAt(amount, j) = "."
       THEN LET k == DigitsEnd(amount, j + 1) IN
            Frac(whole * pow10(k - j - 1) + int(SubSeq(amount, j + 1, k - 1)),
                 pow10(k - j - 1))
       ELSE Frac(whole, 1)

\***************************************************************************
\* The Recipe Intelligence Service (ChatOpenAI.invoke) as seen by the
\* caller: the call raises, or returns text that is not the JSON asked
\* for, or returns a well-formed reply.
\***************************************************************************
IngredientSubstitution(original_name, substitute_name, substitute_amount, substitute_unit) ==
    [original_name |-> original_name, original_amount |-> "2", original_unit |-> "tbsp",
     substitute_name |-> substitute_name, substitute_amount |-> substitute_amount,
     substitute_unit |-> substitute_unit, substitution_reason |-> "dietary",
     substitution_notes |-> None]

SubstitutionReplies == {<<>>, <<IngredientSubstitution("butter", "olive oil", "1", "tbsp")>>}

LlmOutcomes == {"raise", "malformed", "ok"}

\* One request's service calls: <<first call, its substitutions, second call>>.
\* The substitutions exist only when the first call is well-formed, and the
\* second call is made only when the first did not raise.
LlmRuns ==
    {<<"raise", <<>>, "ok">>}
        \cup {<<"malformed", <<>>, b>> : b \in LlmOutcomes}
        \cup {<<"ok", r, b>> : r \in SubstitutionReplies, b \in LlmOutcomes}

\* The runs of a request that builds its prompt without raising; a request
\* that raises before its first call makes none.
NoCalls == <<"none", <<>>, "none">>

ServiceRuns(dietary_preferences) ==
    IF \E i \in 1..Len(dietary_preferences) : dietary_preferences[i] = None
    THEN {NoCalls}
    ELSE LlmRuns

\* A rewritten recipe the service may return for `recipe`
llm_recipe(recipe) ==
    [recipe EXCEPT !.title = "Modified Recipe",
                   !.ingredients = <<Ingredient("olive oil", "1", "tbsp", None)>>]

\***************************************************************************
\* RecipeModifier._manual_recipe_modification: the local transform
\***************************************************************************
\* dict comprehension {sub.original_name: sub}: the last entry of a name wins
substitution_map(substitutions, name) ==
    LET hits == {i \in 1..Len(substitutions) : substitutions[i].original_name = name}
    IN substitutions[CHOOSE i \in hits : \A j \in hits : j <= i]

in_substitution_map(substitutions, name) ==
    \E i \in 1..Len(substitutions) : substitutions[i].original_name = name

modified_ingredient(ingredient, substitutions, scaling_factor) ==
    IF in_substitution_map(substitutions, ingredient.name)
    THEN LET sub == substitution_map(substitutions, ingredient.name) IN
         Ingredient(sub.substitute_name, sub.substitute_amount, sub.substitute_unit,
                    "Substituted for " \o ingredient.name)
    ELSE IF scaling_factor # NoFactor /\ ingredient.amount # None /\ ingredient.amount # ""
    THEN IF has_number(ingredient.amount)
         THEN Ingredient(ingredient.name,
                         float_str(Frac(first_number(ingredient.amount)[1] * scaling_factor[1],
                                        first_number(ingredient.amount)[2] * scaling_factor[2])),
                         ingredient.unit, ingredient.notes)
         ELSE ingredient
    ELSE ingredient

RECURSIVE modified_instruction_last_first(_, _)
\* variant: the substitutions are applied from the last entry to the first
modified_instruction_last_first(instruction, substitutions) ==
    IF Len(substitutions) = 0 THEN instruction
    ELSE replace(modified_instruction_last_first(instruction, Tail(substitutions)),
                 Head(substitutions).original_name, Head(substitutions).substitute_name)

RECURSIVE modified_instruction(_, _)
modified_instruction(instruction, substitutions) ==
    IF Len(substitutions) = 0 THEN instruction
    ELSE modified_instruction(
             replace(instruction, Head(substitutions).original_name,
                     Head(substitutions).substitute_name),
             Tail(substitutions))

manual_recipe_modification(original_recipe, substitutions, scaling_factor) ==
    [title |-> "Modified " \o original_recipe.title,
     ingredients |->
        [i \in 1..Len(original_recipe.ingredients) |->
            modified_ingredient(original_recipe.ingredients[i], substitutions, scaling_factor)],
     prep_phase |->
        [i \in 1..Len(original_recipe.prep_phase) |->
            [original_recipe.prep_phase[i] EXCEPT !.instruction =
                modified_instruction(original_recipe.prep_phase[i].instruction, substitutions)]],
     cook_phase |->
        [i \in 1..Len(original_recipe.cook_phase) |->
            [original_recipe.cook_phase[i] EXCEPT !.instruction =
                modified_instruction(original_recipe.cook_phase[i].instruction, substitutions)]],
     total_time |-> original_recipe.total_time,
     prep_time |-> original_recipe.prep_time,
     cook_time |-> original_recipe.cook_time,
     servings |-> IF scaling_factor # NoFactor
                  THEN float_int(Frac(original_recipe.servings * scaling_factor[1],
                                      scaling_factor[2]))
                  ELSE original_recipe.servings,
     difficulty |-> original_recipe.difficulty]

\***************************************************************************
\* RecipeModifier.modify_recipe. The two service calls are inputs:
\* sub_call / gen_call in LlmOutcomes, sub_reply the substitutions a
\* well-formed first reply carries. target_servings = 0 stands for None
\* (the source only tests its truth value). The result says whether an
\* exception left modify_recipe (raised) and, if not, what it returned.
\***************************************************************************
ModificationRaised(error) ==
    [raised |-> TRUE, error |-> error, modified_recipe |-> <<>>,
     substitutions_made |-> <<>>, scaling_factor |-> NoFactor, new_servings |-> 0]

\* _create_substitution_prompt: ", ".join(dietary_preferences) raises
\* TypeError when a non-empty list holds None
substitution_prompt_raises(dietary_preferences) ==
    \E i \in 1..Len(dietary_preferences) : dietary_preferences[i] = None

\* _find_substitutions_openai after the prompt is built
find_substitutions_openai(sub_call, sub_reply) ==
    IF sub_call = "ok" THEN sub_reply ELSE <<>>

\* _generate_modified_recipe after its service call returned
generate_modified_recipe(original_recipe, substitutions, scaling_factor, gen_call) ==
    IF gen_call = "ok" THEN llm_recipe(original_recipe)
    ELSE manual_recipe_modification(original_recipe, substitutions, scaling_factor)

modify_recipe(recipe, target_servings, dietary_preferences, sub_call, sub_reply, gen_call) ==
    IF substitution_prompt_raises(dietary_preferences)
    THEN ModificationRaised("sequence item 0: expected str instance, NoneType found")
    ELSE IF sub_call = "raise" THEN ModificationRaised("Connection error.")
    ELSE IF gen_call = "raise" THEN ModificationRaised("Connection error.")
    ELSE LET substitutions == find_substitutions_openai(sub_call, sub_reply)
             scaling_factor == IF target_servings # 0 /\ recipe.servings # 0
                               THEN Frac(target_servings, recipe.servings)
                               ELSE NoFactor
         IN [raised |-> FALSE, error |-> "",
             modified_recipe |->
                 generate_modified_recipe(recipe, substitutions, scaling_factor, gen_call),
             substitutions_made |-> substitutions,
             scaling_factor |-> scaling_factor,
             new_servings |-> IF target_servings # 0 THEN target_servings
                              ELSE IF recipe.servings # 0 THEN recipe.servings ELSE 1]

\***************************************************************************
\* VoiceCookingAssistant._save_modified_recipe: the row added to the
\* Recipe table; its id is the next free one. str.title() is tabulated for
\* the modification types the handlers pass.
\***************************************************************************
title(modification_type) ==
    CASE modification_type = "vegetarian" -> "Vegetarian"
      [] modification_type = "vegan" -> "Vegan"
      [] modification_type = "gluten-free" -> "Gluten-Free"
      [] modification_type = "dairy-free" -> "Dairy-Free"
      [] modification_type = "scaled_2.0x" -> "Scaled_2.0X"
      [] modification_type = "scaled_0.5x" -> "Scaled_0.5X"

saved_row(modified_recipe, modification_type) ==
    [modified_recipe EXCEPT
        !.title = modified_recipe.title \o " (" \o title(modification_type) \o ")"]

\* A faulty save that never adds the row; the growth of the table is
\* shown to depend on db.add / db.commit in _save_modified_recipe.
save_modified_recipe_not_added(table, modified_recipe, modification_type) == table

\* A faulty save that updates the first row in place instead of adding one;
\* the stability of the stored recipe is shown to depend on the save
\* creating a new Recipe object.
save_modified_recipe_in_place(table, modified_recipe, modification_type) ==
    [table EXCEPT ![1] = saved_row(modified_recipe, modification_type)]

save_modified_recipe(table, modified_recipe, modification_type) ==
    Append(table, saved_row(modified_recipe, modification_type))

\***************************************************************************
\* _handle_make_vegetarian / _vegan / _gluten_free / _dairy_free: the four
\* differ only in the preference name; each wraps its body in try/except.
\***************************************************************************
\* the modification_request dict a _handle_make_* handler builds
dietary_modification_request(recipe, kind) ==
    [available_ingredients |-> <<>>, target_servings |-> recipe.servings,
     dietary_preferences |-> <<kind>>, substitution_preferences |-> <<>>]

make_dietary_result(recipe, kind, sub_call, sub_reply, gen_call) ==
    modify_recipe(recipe, recipe.servings, <<kind>>, sub_call, sub_reply, gen_call)

\* r is make_dietary_result(...): what modify_recipe did
make_dietary_table(table, kind, r) ==
    IF r.raised THEN table ELSE save_modified_recipe(table, r.modified_recipe, kind)

make_dietary_response(handler, table, recipe, kind, r) ==
    IF r.raised
    THEN [Response(handler, "Sorry, I couldn't create a " \o kind \o " version: " \o r.error)
             EXCEPT !.success = "False"]
    ELSE [Response(handler, "I've created a " \o kind \o " version of " \o recipe.title
                            \o (IF kind = "vegetarian" THEN ". The new recipe has been saved."
                                ELSE ". The new recipe has been saved with ID "
                                         \o str(Len(table) + 1) \o "."))
             EXCEPT !.success = "True", !.new_recipe_id = Len(table) + 1]

\***************************************************************************
\* _handle_scale_recipe(scale_factor): scale_factor is 2.0 or 0.5
\***************************************************************************
scale_factor_of(arg) == IF arg = "2.0" THEN <<2, 1>> ELSE <<1, 2>>

scale_new_servings(recipe, arg) ==
    IF recipe.servings # 0
    THEN float_int(Frac(recipe.servings * scale_factor_of(arg)[1], scale_factor_of(arg)[2]))
    ELSE float_int(Frac(4 * scale_factor_of(arg)[1], scale_factor_of(arg)[2]))

scale_recipe_result(recipe, arg, sub_call, sub_reply, gen_call) ==
    modify_recipe(recipe, scale_new_servings(recipe, arg), <<>>, sub_call, sub_reply, gen_call)

\* r is scale_recipe_result(...): what modify_recipe did
scale_recipe_table(table, arg, r) ==
    IF r.raised THEN table
    ELSE save_modified_recipe(table, r.modified_recipe, "scaled_" \o arg \o "x")

scale_recipe_response(table, recipe, arg, r) ==
    IF r.raised
    THEN [Response("_handle_scale_recipe", "Sorry, I couldn't scale the recipe: " \o r.error)
             EXCEPT !.success = "False"]
    ELSE [Response("_handle_scale_recipe",
                   "I've scaled the recipe to " \o str(scale_new_servings(recipe, arg))
                       \o " servings. The new recipe has been saved with ID "
                       \o str(Len(table) + 1) \o ".")
             EXCEPT !.success = "True", !.new_recipe_id = Len(table) + 1,
                    !.new_servings = scale_new_servings(recipe, arg)]

\***************************************************************************
\* _handle_serving_adjustment(recipe, command): no try/except, and no
\* save: on success the adjusted amounts are written into the request's
\* own recipe object (apply_adjusted_recipe), which is dropped afterwards.
\***************************************************************************
\* variant: 'half' without the minimum of one serving
adjustment_new_servings_floor_only(recipe, command) ==
    LET command_lower == lower(command) IN
    IF serving_match(command_lower) THEN int(serving_group(command_lower))
    ELSE IF In("double", command_lower) THEN recipe.servings * 2
    ELSE IF In("half", command_lower) THEN recipe.servings \div 2
    ELSE 0

adjustment_new_servings(recipe, command) ==
    LET command_lower == lower(command) IN
    IF serving_match(command_lower) THEN int(serving_group(command_lower))
    ELSE IF In("double", command_lower) THEN recipe.servings * 2
    ELSE IF In("half", command_lower) THEN Max(1, recipe.servings \div 2)
    ELSE 0

\* adjust_recipe_for_dietary_needs(recipe, None, new_servings)
adjust_recipe_for_dietary_needs(recipe, dietary_preference, servings, sub_call, sub_reply, gen_call) ==
    modify_recipe(recipe, servings, <<dietary_preference>>, sub_call, sub_reply, gen_call)

\* the dict adjust_recipe_for_dietary_needs returns from a modify_recipe result
adjusted_data_of(result) ==
    [adjusted_ingredients |->
        [i \in 1..Len(result.modified_recipe.ingredients) |->
            [name |-> result.modified_recipe.ingredients[i].name,
             amount |-> result.modified_recipe.ingredients[i].amount,
             unit |-> result.modified_recipe.ingredients[i].unit,
             substitution_note |-> result.modified_recipe.ingredients[i].notes]],
     serving_size |-> result.new_servings]

\* apply_adjusted_recipe's inner loop for one ingredient object: every
\* adjusted ingredient of the same lowered name assigns amount and unit, in
\* list order
RECURSIVE adjusted_ingredient(_, _)
adjusted_ingredient(ing, adjusted_ingredients) ==
    IF Len(adjusted_ingredients) = 0 THEN ing
    ELSE adjusted_ingredient(
             IF lower(ing.name) = lower(Head(adjusted_ingredients).name)
             THEN [ing EXCEPT !.amount = Head(adjusted_ingredients).amount,
                              !.unit = Head(adjusted_ingredients).unit]
             ELSE ing,
             Tail(adjusted_ingredients))

\* apply_adjusted_recipe: the value of the recipe object it was given, after
\* the call (the assignments are made on that object and its ingredients)
apply_adjusted_recipe(recipe, adjusted_data) ==
    [recipe EXCEPT
        !.ingredients = [i \in 1..Len(recipe.ingredients) |->
                            adjusted_ingredient(recipe.ingredients[i],
                                                adjusted_data.adjusted_ingredients)],
        !.servings = adjusted_data.serving_size]

\* new_servings is adjustment_new_servings(recipe, command); r is what
\* adjust_recipe_for_dietary_needs did (it is called only when new_servings
\* is truthy)
serving_adjustment_response(new_servings, r) ==
    IF new_servings # 0
    THEN IF r.raised
         THEN [Raised("_handle_serving_adjustment", r.error) EXCEPT !.new_servings = new_servings]
         ELSE [Response("_handle_serving_adjustment",
                        "Recipe adjusted for " \o str(new_servings) \o " servings")
                  EXCEPT !.success = "True", !.new_servings = new_servings]
    ELSE [Response("_handle_serving_adjustment",
                   "I couldn't determine how to adjust the serving size. Please specify a number of servings or say 'double' or 'half'.")
             EXCEPT !.success = "False"]

\***************************************************************************
\* _handle_ingredient_removal: one service call, not guarded
\***************************************************************************
ingredient_removal_response(ingredient_name, gen_call) ==
    IF gen_call = "raise" THEN Raised("_handle_ingredient_removal", "Connection error.")
    ELSE Response("_handle_ingredient_removal", "(the service's text about " \o ingredient_name \o ")")

\***************************************************************************
\* The handlers that only read: repeat, prep query, time query,
\* ingredients query, timer info / start / pause / resume, substitute,
\* unknown command.
\***************************************************************************
RECURSIVE join(_, _)
\* sep.join(items)
join(sep, items) ==
    IF Len(items) = 0 THEN ""
    ELSE IF Len(items) = 1 THEN items[1]
    ELSE items[1] \o sep \o join(sep, Tail(items))

RECURSIVE sum_time(_, _)
\* sum(step.time_estimate or 0 for step in phase[from:]), from zero-based
sum_time(phase, from) ==
    IF from >= Len(phase) THEN 0
    ELSE phase[from + 1].time_estimate + sum_time(phase, from + 1)

calculate_remaining_prep_time(s, recipe) ==
    IF Len(recipe.prep_phase) = 0 THEN 0
    ELSE sum_time(recipe.prep_phase, get_current_prep_index(s, recipe))

calculate_remaining_cook_time(s, recipe) ==
    IF Len(recipe.cook_phase) = 0 THEN 0
    ELSE sum_time(recipe.cook_phase, get_current_cook_index(s, recipe))

time_query_response(s, recipe) ==
    [Response("_handle_time_query",
              IF s.current_phase = "prep"
              THEN "Prep phase: " \o str(calculate_remaining_prep_time(s, recipe))
                       \o " minutes remaining"
              ELSE "Cooking phase: " \o str(calculate_remaining_cook_time(s, recipe))
                       \o " minutes remaining")
        EXCEPT !.current_phase = s.current_phase]

repeat_step_response(s) ==
    [Response("_handle_repeat_step",
              IF s.current_step # None /\ s.current_step # ""
              THEN "Repeating: " \o s.current_step
              ELSE "No current step to repeat.")
        EXCEPT !.current_step = s.current_step, !.current_phase = s.current_phase]

prep_query_response(s, recipe) ==
    [Response("_handle_prep_query",
              "Prep phase includes: "
                  \o join("; ", [i \in 1..Len(recipe.prep_phase) |->
                                    recipe.prep_phase[i].instruction]))
        EXCEPT !.current_phase = s.current_phase]

ingredients_query_response(recipe) ==
    Response("_handle_ingredients_query",
             "Ingredients needed: "
                 \o join("; ", [i \in 1..Len(recipe.ingredients) |->
                                   PyStr(recipe.ingredients[i].amount) \o " "
                                       \o PyStr(recipe.ingredients[i].unit) \o " "
                                       \o recipe.ingredients[i].name]))

timer_info_response(s) ==
    IF timer_raises(s.current_step)
    THEN Raised("_handle_timer_info", "expected string or bytes-like object")
    ELSE [Response("_handle_timer_info",
                   IF detect_timer_in_instruction(s.current_step) # 0
                   THEN timer_message(detect_timer_in_instruction(s.current_step))
                   ELSE "The current step doesn't require a timer. If you need to time something manually, you can use your own timer or ask me to help with timing.")
             EXCEPT !.current_step = s.current_step, !.current_phase = s.current_phase]

start_timer_response(s) ==
    IF timer_raises(s.current_step)
    THEN Raised("_handle_start_timer", "expected string or bytes-like object")
    ELSE [Response("_handle_start_timer",
                   IF detect_timer_in_instruction(s.current_step) # 0
                   THEN "Starting timer for " \o str(detect_timer_in_instruction(s.current_step))
                            \o " minute"
                            \o (IF detect_timer_in_instruction(s.current_step) # 1 THEN "s" ELSE "")
                            \o ". The timer is now running on your screen."
                   ELSE "The current step doesn't have a timer requirement. You can start the timer manually from the timer component.")
             EXCEPT !.current_step = s.current_step, !.current_phase = s.current_phase]

pause_timer_response(s) ==
    [Response("_handle_pause_timer", "Timer paused. Say 'resume timer' to continue.")
        EXCEPT !.current_step = s.current_step, !.current_phase = s.current_phase]

resume_timer_response(s) ==
    [Response("_handle_resume_timer",
              "Timer resumed. You can control the timer manually from the screen.")
        EXCEPT !.current_step = s.current_step, !.current_phase = s.current_phase]

substitute_ingredient_response ==
    [Response("_handle_substitute_ingredient",
              "To substitute ingredients, please specify which ingredient you'd like to replace and what you'd like to use instead. For example: 'replace chicken with tofu'.")
        EXCEPT !.success = "False"]

\* variant: the unknown command is raised to the caller
unknown_command_response_raises(command) ==
    Raised("_handle_unknown_command", "I didn't understand '" \o command \o "'.")

unknown_command_response(command) ==
    Response("_handle_unknown_command",
             "I didn't understand '" \o command
                 \o "'. Try saying 'next', 'repeat', 'what prep', 'pause', 'resume', 'start timer', 'pause timer', 'resume timer', or 'timer info'.")

\***************************************************************************
\* Requests. Each action is one HTTP request handled to its end:
\* start_cooking_session, or the voice_command route with the handler the
\* dispatch picks for the command text.
\***************************************************************************
SessionCommands ==
    {"next", "repeat", "what prep", "pause", "resume", "time", "timer info",
     "start timer", "pause timer", "resume timer", "ingredients",
     "make it vegan", "vegetarian", "gluten free", "dairy-free", "make more",
     "make less", "substitute", "asdf", "remove garlic from the sauce",
     "double recipe", "half recipe", "4 servings", "change to gluten free"}

RouteOf == [c \in SessionCommands |-> process_voice_command(c)]

CommandsFor(handlers) == {c \in SessionCommands : RouteOf[c].handler \in handlers}

\* the OptimizedRecipe the route builds from the session's Recipe row
BoundRecipe == recipes[session.recipe_id]

AdvanceCap == MaxSteps + 2

Snapshot ==
    [session |-> session, completed |-> completed, recipes |-> recipes,
     nAdvance |-> nAdvance, onlyAdvance |-> onlyAdvance]

\* The worker threads of the route: voice_command is a plain def endpoint,
\* so every request runs in its own thread with its own database session.
Requests == 1..MaxRequests

NoRequests ==
    [pc |-> [r \in Requests |-> "idle"],
     loaded |-> [r \in Requests |-> NoSession],
     base |-> NoSession]

\* no function run yet
NotApplied == [fn |-> "none", result |-> 0]

AllIdle == \A r \in Requests : inflight.pc[r] = "idle"

\* One voice_command request handled to its end: the session row and the
\* Recipe table as committed, the response, and the history it leaves.
Handled(new_session, new_table, new_response, is_next, finishes, run) ==
    /\ session' = new_session
    /\ recipes' = new_table
    /\ response' = new_response
    /\ completed' = (completed \/ finishes)
    /\ before' = Snapshot
    /\ beforePause' = IF new_response.handler = "_handle_pause" THEN session
                      ELSE IF new_response.handler = "_handle_resume"
                                  /\ response.handler = "_handle_pause"
                           THEN beforePause
                      ELSE NoSession
    /\ llmRun' = run
    /\ onlyAdvance' = (onlyAdvance /\ is_next)
    /\ nAdvance' = IF onlyAdvance /\ is_next
                   THEN (IF nAdvance < AdvanceCap THEN nAdvance + 1 ELSE nAdvance)
                   ELSE 0
    /\ UNCHANGED <<icommand, iroute, inflight, applied>>

start_cooking_session ==
    /\ session.id = 0
    /\ session' = CookingSession(1, 1,
                      IF Len(recipes[1].prep_phase) > 0
                      THEN recipes[1].prep_phase[1].instruction ELSE None,
                      "prep", TRUE)
    /\ response' = [Response("start_cooking_session", recipes[1].title) EXCEPT
                       !.current_step = session'.current_step,
                       !.current_phase = "prep", !.is_active = "True"]
    /\ before' = Snapshot
    /\ UNCHANGED <<recipes, completed, nAdvance, onlyAdvance, beforePause, llmRun,
                   icommand, iroute, inflight, applied>>

session_not_found ==
    /\ session.id = 0
    /\ response' = Raised("process_voice_command", "404: Cooking session not found")
    /\ before' = Snapshot
    /\ UNCHANGED <<recipes, session, completed, nAdvance, onlyAdvance, beforePause,
                   llmRun, icommand, iroute, inflight, applied>>

handle_next_step ==
    /\ session.id # 0
    /\ \E c \in CommandsFor({"_handle_next_step"}) :
          Handled(next_step_session(session, BoundRecipe), recipes,
                  next_step_response(session, BoundRecipe), TRUE,
                  next_step_finishes(session, BoundRecipe), NoCalls)

handle_pause ==
    /\ session.id # 0
    /\ \E c \in CommandsFor({"_handle_pause"}) :
          Handled(pause_session(session), recipes, pause_response(session), FALSE, FALSE,
                  NoCalls)

handle_resume ==
    /\ session.id # 0
    /\ \E c \in CommandsFor({"_handle_resume"}) :
          Handled(resume_session(session), recipes, resume_response(session), FALSE, FALSE,
                  NoCalls)

\* variant: a query that clears the active flag
query_session_deactivates(s) == [s EXCEPT !.is_active = FALSE]

\* the session row after a query or timer handler: none of them assigns to
\* the session or commits
query_session(s) == s

handle_query ==
    /\ session.id # 0
    /\ \E c \in CommandsFor({"_handle_repeat_step", "_handle_prep_query", "_handle_time_query",
                             "_handle_ingredients_query", "_handle_substitute_ingredient",
                             "_handle_unknown_command"}) :
          Handled(query_session(session), recipes,
                  CASE RouteOf[c].handler = "_handle_repeat_step" -> repeat_step_response(session)
                    [] RouteOf[c].handler = "_handle_prep_query" ->
                           prep_query_response(session, BoundRecipe)
                    [] RouteOf[c].handler = "_handle_time_query" ->
                           time_query_response(session, BoundRecipe)
                    [] RouteOf[c].handler = "_handle_ingredients_query" ->
                           ingredients_query_response(BoundRecipe)
                    [] RouteOf[c].handler = "_handle_substitute_ingredient" ->
                           substitute_ingredient_response
                    [] RouteOf[c].handler = "_handle_unknown_command" ->
                           unknown_command_response(RouteOf[c].arg),
                  FALSE, FALSE, NoCalls)

handle_timer ==
    /\ session.id # 0
    /\ \E c \in CommandsFor({"_handle_timer_info", "_handle_start_timer",
                             "_handle_pause_timer", "_handle_resume_timer"}) :
          Handled(query_session(session), recipes,
                  CASE RouteOf[c].handler = "_handle_timer_info" -> timer_info_response(session)
                    [] RouteOf[c].handler = "_handle_start_timer" -> start_timer_response(session)
                    [] RouteOf[c].handler = "_handle_pause_timer" -> pause_timer_response(session)
                    [] RouteOf[c].handler = "_handle_resume_timer" -> resume_timer_response(session),
                  FALSE, FALSE, NoCalls)

handle_make_dietary ==
    /\ session.id # 0
    /\ \E c \in CommandsFor({"_handle_make_vegan", "_handle_make_vegetarian",
                             "_handle_make_gluten_free", "_handle_make_dairy_free"}),
          llm \in LlmRuns :
          LET r == make_dietary_result(BoundRecipe, RouteOf[c].arg, llm[1], llm[2], llm[3])
              table == make_dietary_table(recipes, RouteOf[c].arg, r)
          IN /\ Len(table) <= MaxRecipes
             /\ Handled(session, table,
                        make_dietary_response(RouteOf[c].handler, recipes, BoundRecipe,
                                              RouteOf[c].arg, r),
                        FALSE, FALSE, llm)

handle_scale_recipe ==
    /\ session.id # 0
    /\ \E c \in CommandsFor({"_handle_scale_recipe"}), llm \in LlmRuns :
          LET r == scale_recipe_result(BoundRecipe, RouteOf[c].arg, llm[1], llm[2], llm[3])
              table == scale_recipe_table(recipes, RouteOf[c].arg, r)
          IN /\ Len(table) <= MaxRecipes
             /\ Handled(session, table,
                        scale_recipe_response(recipes, BoundRecipe, RouteOf[c].arg, r),
                        FALSE, FALSE, llm)

handle_serving_adjustment ==
    /\ session.id # 0
    /\ \E c \in CommandsFor({"_handle_serving_adjustment"}), llm \in ServiceRuns(<<None>>) :
          LET new_servings == adjustment_new_servings(BoundRecipe, RouteOf[c].arg)
              r == adjust_recipe_for_dietary_needs(BoundRecipe, None, new_servings,
                                                   llm[1], llm[2], llm[3])
          IN Handled(session, recipes, serving_adjustment_response(new_servings, r),
                     FALSE, FALSE, llm)

handle_ingredient_removal ==
    /\ session.id # 0
    /\ \E c \in CommandsFor({"_handle_ingredient_removal"}), gen_call \in LlmOutcomes :
          Handled(session, recipes,
                  ingredient_removal_response(RouteOf[c].arg, gen_call), FALSE, FALSE,
                  <<"none", <<>>, gen_call>>)

\***************************************************************************
\* A 'next' request as the threads run it: the route loads the session row
\* into the request's own database session (db.get), _handle_next_step works
\* on that loaded object, and db.commit() writes the columns it changed. No
\* lock, row version or SELECT ... FOR UPDATE stands between the two steps.
\***************************************************************************
\* the UPDATE a commit issues: only the columns whose value the handler changed
commit_row(row, loaded, new) ==
    [f \in DOMAIN row |-> IF new[f] # loaded[f] THEN new[f] ELSE row[f]]

voice_command_load(r) ==
    /\ session.id # 0
    /\ inflight.pc[r] = "idle"
    /\ inflight' = [inflight EXCEPT !.pc[r] = "loaded", !.loaded[r] = session,
                                    !.base = IF AllIdle THEN session ELSE @]
    /\ UNCHANGED <<recipes, session, response, completed, nAdvance, onlyAdvance,
                   before, beforePause, llmRun, icommand, iroute, applied>>

voice_command_commit(r) ==
    /\ inflight.pc[r] = "loaded"
    /\ LET mine == inflight.loaded[r]
           new == next_step_session(mine, BoundRecipe) IN
       /\ session' = commit_row(session, mine, new)
       /\ response' = next_step_response(mine, BoundRecipe)
       /\ completed' = (completed \/ next_step_finishes(mine, BoundRecipe))
    /\ before' = Snapshot
    /\ inflight' = [inflight EXCEPT !.pc[r] = "done"]
    /\ UNCHANGED <<recipes, nAdvance, onlyAdvance, beforePause, llmRun, icommand, iroute,
                   applied>>

\* a 'next' request that runs alone, before any concurrent request started
next_step_alone ==
    /\ AllIdle
    /\ handle_next_step

InitWith(inputs) ==
    /\ recipes \in {<<r>> : r \in inputs}
    /\ session = NoSession
    /\ response = NoResponse
    /\ completed = FALSE
    /\ nAdvance = 0
    /\ onlyAdvance = TRUE
    /\ before = Snapshot
    /\ beforePause = NoSession
    /\ llmRun = NoCalls
    /\ icommand = ""
    /\ iroute = NoRoute
    /\ inflight = NoRequests
    /\ applied = NotApplied

\* Requests that make no service call
SessionNext ==
    \/ start_cooking_session
    \/ session_not_found
    \/ handle_next_step
    \/ handle_pause
    \/ handle_resume
    \/ handle_query
    \/ handle_timer

\* Every request
Next ==
    \/ SessionNext
    \/ handle_make_dietary
    \/ handle_scale_recipe
    \/ handle_serving_adjustment
    \/ handle_ingredient_removal

\* Sessions over every recipe layout, driven by the requests that make no
\* service call.
Init == InitWith(RecipeInputs({MaxServings}))

Spec == Init /\ [][SessionNext]_vars

\* Every request, on one recipe layout with every serving count.
ModInit == InitWith(SmallRecipeInputs)

ModSpec == ModInit /\ [][Next]_vars

\***************************************************************************
\* The interpreter alone: one command text is drawn and dispatched.
\***************************************************************************
InterpInit ==
    /\ recipes = <<OptimizedRecipe("Soup", PantryIngredients, <<>>, <<>>, 1)>>
    /\ session = NoSession
    /\ response = NoResponse
    /\ completed = FALSE
    /\ nAdvance = 0
    /\ onlyAdvance = TRUE
    /\ before = Snapshot
    /\ beforePause = NoSession
    /\ llmRun = NoCalls
    /\ icommand \in Commands
    /\ iroute = NoRoute
    /\ inflight = NoRequests
    /\ applied = NotApplied

interpret ==
    /\ iroute = NoRoute
    /\ iroute' = process_voice_command(icommand)
    /\ UNCHANGED <<recipes, session, response, completed, nAdvance, onlyAdvance,
                   before, beforePause, llmRun, icommand, inflight, applied>>

InterpSpec == InterpInit /\ [][interpret]_vars

\***************************************************************************
\* Serving counts alone: a command text and a recipe's servings are drawn,
\* the command is dispatched, and the handler it reaches computes the
\* serving count it will ask the recipe modifier for:
\* _handle_serving_adjustment its new_servings, a _handle_make_* handler its
\* modification_request.
\***************************************************************************
ServingFragments ==
    {"double", "half", "4 servings", "0 servings", "12 people", "1 person",
     "3servings", "scale", "change to", "Half the", "serving", "vegan",
     "gluten-free"}

ServingCommands ==
    {Join(ws) : ws \in UNION {[1..n -> ServingFragments] : n \in 1..MaxFragments}}

ScaleInit ==
    /\ recipes \in {<<OptimizedRecipe("Soup", PantryIngredients, <<>>, <<>>, n)>> :
                        n \in 1..MaxCurrent}
    /\ session = NoSession
    /\ response = NoResponse
    /\ completed = FALSE
    /\ nAdvance = 0
    /\ onlyAdvance = TRUE
    /\ before = Snapshot
    /\ beforePause = NoSession
    /\ llmRun = NoCalls
    /\ icommand \in ServingCommands
    /\ iroute = NoRoute
    /\ inflight = NoRequests
    /\ applied = NotApplied

serving_adjustment_target ==
    /\ iroute.handler = "_handle_serving_adjustment"
    /\ applied.fn = "none"
    /\ applied' = [fn |-> "_handle_serving_adjustment",
                   result |-> adjustment_new_servings(recipes[1], iroute.arg)]
    /\ UNCHANGED <<recipes, session, response, completed, nAdvance, onlyAdvance,
                   before, beforePause, llmRun, icommand, iroute, inflight>>

make_dietary_request ==
    /\ iroute.handler \in {"_handle_make_vegan", "_handle_make_vegetarian",
                           "_handle_make_gluten_free", "_handle_make_dairy_free"}
    /\ applied.fn = "none"
    /\ applied' = [fn |-> iroute.handler,
                   result |-> dietary_modification_request(recipes[1], iroute.arg)]
    /\ UNCHANGED <<recipes, session, response, completed, nAdvance, onlyAdvance,
                   before, beforePause, llmRun, icommand, iroute, inflight>>

ScaleNext ==
    \/ interpret
    \/ serving_adjustment_target
    \/ make_dietary_request

ScaleSpec == ScaleInit /\ [][ScaleNext]_vars

\***************************************************************************
\* The duration extractor alone: an instruction text (or None, the
\* current_step of a session without one) is drawn and
\* _detect_timer_in_instruction is applied to it.
\***************************************************************************
TimerFragments ==
    {"Simmer for 12 minutes", "cook for 1 min", "bake for 301 minutes", "0 minutes",
     "Preheat oven to 400 degrees", "400 minutes", "5 minutes", "rest for 5 minutes",
     "Rest 10 MINS", "Chop the onions", "300 minutes"}

TimerTexts ==
    {Join(ws) : ws \in UNION {[1..n -> TimerFragments] : n \in 1..MaxFragments}}

TimerInit ==
    /\ recipes = <<OptimizedRecipe("Soup", PantryIngredients, <<>>, <<>>, 1)>>
    /\ session = NoSession
    /\ response = NoResponse
    /\ completed = FALSE
    /\ nAdvance = 0
    /\ onlyAdvance = TRUE
    /\ before = Snapshot
    /\ beforePause = NoSession
    /\ llmRun = NoCalls
    /\ icommand = ""
    /\ iroute = NoRoute
    /\ inflight = NoRequests
    /\ applied \in {[fn |-> "none", instruction |-> t, raised |-> FALSE, result |-> 0] :
                       t \in TimerTexts \cup {None}}

detect_timer ==
    /\ applied.fn = "none"
    /\ applied' = [applied EXCEPT
                       !.fn = "_detect_timer_in_instruction",
                       !.raised = timer_raises(applied.instruction),
                       !.result = IF timer_raises(applied.instruction) THEN 0
                                  ELSE detect_timer_in_instruction(applied.instruction)]
    /\ UNCHANGED <<recipes, session, response, completed, nAdvance, onlyAdvance,
                   before, beforePause, llmRun, icommand, iroute, inflight>>

TimerSpec == TimerInit /\ [][detect_timer]_vars

\***************************************************************************
\* The local transform alone: a recipe, a substitution list and a scaling
\* factor (NoFactor: None) are drawn and _manual_recipe_modification is
\* applied to them.
\***************************************************************************
ScalingFactors == {NoFactor, <<1, 1>>, <<2, 1>>, <<1, 2>>}

\* ingredient lists: with and without notes, and a name that differs from
\* another only in case
TransformIngredients ==
    {PantryIngredients,
     <<Ingredient("onions", "2", None, "finely diced"), Ingredient("Onions", "1", "cup", None),
       Ingredient("salt", "to taste", None, None)>>}

\* substitution lists of at most MaxSubstitutions entries; two entries may
\* name the same original, and one may name another's substitute
TransformSubstitutions ==
    BoundedSeq({IngredientSubstitution("onions", "leeks", "3", "stalks"),
                IngredientSubstitution("onions", "chives", "1", "bunch"),
                IngredientSubstitution("leeks", "shallots", "4", None),
                IngredientSubstitution("butter", "olive oil", "1", "tbsp")},
               MaxSubstitutions)

TransformInit ==
    /\ recipes = <<OptimizedRecipe("Soup", PantryIngredients, <<>>, <<>>, 1)>>
    /\ session = NoSession
    /\ response = NoResponse
    /\ completed = FALSE
    /\ nAdvance = 0
    /\ onlyAdvance = TRUE
    /\ before = Snapshot
    /\ beforePause = NoSession
    /\ llmRun = NoCalls
    /\ icommand = ""
    /\ iroute = NoRoute
    /\ inflight = NoRequests
    /\ applied \in {[fn |-> "none", original_recipe |-> r, substitutions |-> subs,
                      scaling_factor |-> f, result |-> 0] :
                       r \in {[x EXCEPT !.ingredients = ings] :
                                   x \in RecipeInputs({MaxServings}),
                                   ings \in TransformIngredients},
                       subs \in TransformSubstitutions,
                       f \in ScalingFactors}

transform ==
    /\ applied.fn = "none"
    /\ applied' = [applied EXCEPT
                       !.fn = "_manual_recipe_modification",
                       !.result = manual_recipe_modification(applied.original_recipe,
                                      applied.substitutions, applied.scaling_factor)]
    /\ UNCHANGED <<recipes, session, response, completed, nAdvance, onlyAdvance,
                   before, beforePause, llmRun, icommand, iroute, inflight>>

TransformSpec == TransformInit /\ [][transform]_vars

\***************************************************************************
\* apply_adjusted_recipe alone: a recipe object and the adjusted data that
\* adjust_recipe_for_dietary_needs builds from a modification of it are
\* drawn, and apply_adjusted_recipe is called on them. applied.recipe is
\* the value of the object passed in, applied.original_recipe (history) its
\* value before the call.
\***************************************************************************
AdjustedInputs(r) ==
    {adjusted_data_of(modify_recipe(r, target, <<"vegan">>, "ok", subs, "malformed")) :
        target \in {1, 2 * r.servings}, subs \in SubstitutionReplies}

ApplyInit ==
    /\ recipes = <<OptimizedRecipe("Soup", PantryIngredients, <<>>, <<>>, 1)>>
    /\ session = NoSession
    /\ response = NoResponse
    /\ completed = FALSE
    /\ nAdvance = 0
    /\ onlyAdvance = TRUE
    /\ before = Snapshot
    /\ beforePause = NoSession
    /\ llmRun = NoCalls
    /\ icommand = ""
    /\ iroute = NoRoute
    /\ inflight = NoRequests
    /\ applied \in UNION {{[fn |-> "none", original_recipe |-> r, recipe |-> r,
                              adjusted_data |-> d, result |-> 0] : d \in AdjustedInputs(r)} :
                                r \in RecipeInputs(1..MaxServings)}

apply_adjusted ==
    /\ applied.fn = "none"
    /\ applied' = [applied EXCEPT
                       !.fn = "apply_adjusted_recipe",
                       !.recipe = apply_adjusted_recipe(applied.recipe, applied.adjusted_data),
                       !.result = apply_adjusted_recipe(applied.recipe, applied.adjusted_data)]
    /\ UNCHANGED <<recipes, session, response, completed, nAdvance, onlyAdvance,
                   before, beforePause, llmRun, icommand, iroute, inflight>>

ApplySpec == ApplyInit /\ [][apply_adjusted]_vars

\***************************************************************************
\* Concurrent requests: a session is started, walked some way by 'next'
\* requests that run alone, and then MaxRequests 'next' requests run in
\* worker threads, their loads and commits interleaved in every order.
\***************************************************************************
ConcNext ==
    \/ start_cooking_session
    \/ next_step_alone
    \/ \E r \in Requests : voice_command_load(r)
    \/ \E r \in Requests : voice_command_commit(r)

ConcSpec == Init /\ [][ConcNext]_vars

\***************************************************************************
\* Properties. Vocabulary shared by the statements below.
\***************************************************************************
\* the steps of a recipe in walking order: all prep steps, then all cook steps
StepsInOrder(recipe) ==
    [i \in 1..(Len(recipe.prep_phase) + Len(recipe.cook_phase)) |->
        IF i <= Len(recipe.prep_phase) THEN recipe.prep_phase[i].instruction
        ELSE recipe.cook_phase[i - Len(recipe.prep_phase)].instruction]

\* the intent a route stands for
IntentOf(route) ==
    IF route.handler = "_handle_ingredient_removal" THEN "RemoveIngredient"
    ELSE IF route.handler \in {"_handle_make_vegan", "_handle_make_vegetarian",
                               "_handle_make_gluten_free", "_handle_make_dairy_free"}
    THEN "ConvertDiet"
    ELSE IF route.handler \in {"_handle_serving_adjustment", "_handle_scale_recipe"}
    THEN "ScaleServings"
    ELSE IF route.handler = "_handle_unknown_command" THEN "Unknown"
    ELSE "Phrase"

\* the dietary keywords of the classification policy, spaced variants included
DietaryKeywords ==
    {"vegan", "vegetarian", "gluten-free", "dairy-free", "gluten free", "dairy free"}

ConvertDietHandlers ==
    {"_handle_make_vegan", "_handle_make_vegetarian", "_handle_make_gluten_free",
     "_handle_make_dairy_free"}

\* the last request was a recipe modification in which a service call that
\* was made raised or returned malformed output
ServiceFailed ==
    \/ llmRun[1] \in {"raise", "malformed"}
    \/ llmRun[1] = "ok" /\ llmRun[3] \in {"raise", "malformed"}

\***************************************************************************
\* C1: a fresh session driven only by 'next' commands walks the steps of
\* its recipe in order, prep steps first, then cook steps, and then has
\* finished and is inactive, for every recipe that has a step, repeated
\* instruction texts included. With p >= 1 prep steps and c cook steps it
\* is, after k < p + c commands, on step k + 1 of the walking order, active
\* and not finished, and after p + c commands it has finished. With no prep
\* step it has finished after c + 1 commands at the latest.
\***************************************************************************
C1_AdvanceVisitsEveryStepInOrder ==
    LET p == Len(BoundRecipe.prep_phase)
        c == Len(BoundRecipe.cook_phase)
    IN (session.id # 0 /\ onlyAdvance /\ p + c > 0) =>
           IF p = 0
           THEN nAdvance >= c + 1 => (completed /\ ~session.is_active)
           ELSE IF nAdvance < p + c
           THEN /\ ~completed
                /\ session.is_active
                /\ session.current_phase = (IF nAdvance < p THEN "prep" ELSE "cook")
                /\ session.current_step = StepsInOrder(BoundRecipe)[nAdvance + 1]
           ELSE completed /\ ~session.is_active

\***************************************************************************
\* C2: classification is first-match-wins over the tiers removal pattern,
\* dietary keyword, serving/scale keyword, exact phrase, unknown: a command
\* matching the removal pattern is RemoveIngredient; otherwise one containing
\* a dietary keyword is ConvertDiet; otherwise one containing a scale
\* keyword is ScaleServings and is not dispatched by the phrase table;
\* otherwise the phrase table or Unknown decides.
\***************************************************************************
C2_FirstMatchingTierDecides ==
    (iroute # NoRoute) =>
        LET command_lower == strip(lower(icommand)) IN
        IF remove_match(command_lower) THEN IntentOf(iroute) = "RemoveIngredient"
        ELSE IF \E keyword \in DietaryKeywords : In(keyword, command_lower)
        THEN IntentOf(iroute) = "ConvertDiet"
        ELSE IF \E keyword \in serving_keywords : In(keyword, command_lower)
        THEN IntentOf(iroute) = "ScaleServings" /\ iroute.tier # "phrase"
        ELSE iroute.tier \in {"phrase", "unknown"}

\***************************************************************************
\* C3: in every reachable state, a session that has advanced past its last
\* step is inactive.
\***************************************************************************
C3_CompleteIsInactive == completed => ~session.is_active

\***************************************************************************
\* C4: a 'resume' handled on a session that has advanced past its last step
\* leaves the session row as it was, inactive, and does not report the
\* session as resumed.
\***************************************************************************
C4_ResumeOnCompleteFails ==
    (response.handler = "_handle_resume" /\ before.completed) =>
        /\ session = before.session
        /\ ~session.is_active
        /\ response.is_active # "True"

\***************************************************************************
\* C5: a 'next' handled on a session that has advanced past its last step
\* changes nothing: phase, current step and active flag are those before it.
\***************************************************************************
C5_AdvanceOnCompleteIsNoOp ==
    (response.handler = "_handle_next_step" /\ before.completed) =>
        session = before.session

\***************************************************************************
\* C6 (as stated): 'pause' clears the active flag and touches nothing else,
\* and a 'resume' right after it on an unfinished session (one whose
\* recipe has steps and which has not advanced past the last) gives back
\* exactly the session row that held before the 'pause'.
\***************************************************************************
C6_PauseResumeRestoresAnySession ==
    (/\ response.handler = "_handle_resume"
     /\ beforePause # NoSession
     /\ Len(StepsInOrder(BoundRecipe)) > 0
     /\ ~completed) =>
        /\ before.session = [beforePause EXCEPT !.is_active = FALSE]
        /\ session.is_active
        /\ session = beforePause

\***************************************************************************
\* C6 (amended): 'pause' clears the active flag and touches nothing else,
\* and a 'resume' right after it sets the flag; on an unfinished session
\* that was active before the 'pause', the two together give back exactly
\* the session row that held before the 'pause'.
\***************************************************************************
C6_PauseResumeRestoresActiveSession ==
    (/\ response.handler = "_handle_resume"
     /\ beforePause # NoSession
     /\ Len(StepsInOrder(BoundRecipe)) > 0
     /\ ~completed) =>
        /\ before.session = [beforePause EXCEPT !.is_active = FALSE]
        /\ session.is_active
        /\ beforePause.is_active => session = beforePause

\* C6, reached: an unfinished session, active before a 'pause', after the
\* 'resume' that followed the 'pause'
C6_ResumedAfterPause ==
    /\ response.handler = "_handle_resume"
    /\ beforePause # NoSession
    /\ beforePause.is_active
    /\ Len(StepsInOrder(BoundRecipe)) > 0
    /\ ~completed
    /\ ~before.session.is_active
    /\ session.is_active

\***************************************************************************
\* C7: a newly created session is in phase prep on the first prep step and
\* active, unless its recipe has no step in either phase: then it is
\* finished and inactive from the start.
\***************************************************************************
C7_FreshSessionState ==
    (response.handler = "start_cooking_session") =>
        IF Len(BoundRecipe.prep_phase) = 0 /\ Len(BoundRecipe.cook_phase) = 0
        THEN ~session.is_active
        ELSE /\ session.is_active
             /\ session.current_phase = "prep"
             /\ Len(BoundRecipe.prep_phase) > 0 =>
                    session.current_step = BoundRecipe.prep_phase[1].instruction

\***************************************************************************
\* C8: a command handled on an existing session never raises to the
\* caller, whatever the intent and whatever the service does: the request
\* returns a response carrying a text.
\***************************************************************************
C8_NoHandlerRaises ==
    (session.id # 0 /\ response.handler # "start_cooking_session") =>
        /\ response.kind = "returned"
        /\ response.response # None

\***************************************************************************
\* C9: when a service call of a recipe modification raises or returns
\* malformed output, the command still succeeds, and when the rewriting call
\* is the one that failed, the saved recipe is the local transform of the
\* bound recipe.
\***************************************************************************
C9_ServiceFailureFallsBack ==
    (response.handler \in ConvertDietHandlers \cup {"_handle_scale_recipe"} /\ ServiceFailed) =>
        /\ response.kind = "returned"
        /\ response.success = "True"
        /\ Len(recipes) = Len(before.recipes) + 1
        /\ llmRun[3] = "malformed" =>
               \E modification_type \in {"vegan", "vegetarian", "gluten-free", "dairy-free",
                                         "scaled_2.0x", "scaled_0.5x"},
                  target_servings \in 0..(2 * BoundRecipe.servings) :
                   recipes[Len(recipes)] =
                       saved_row(manual_recipe_modification(
                                     BoundRecipe,
                                     find_substitutions_openai(llmRun[1], llmRun[2]),
                                     IF target_servings # 0
                                     THEN Frac(target_servings, BoundRecipe.servings)
                                     ELSE NoFactor),
                                 modification_type)

\***************************************************************************
\* C10: a ScaleServings or ConvertDiet command that reports success has
\* added exactly one row to the Recipe table, left every earlier row as it
\* was, and returned the id of the new row, which is not the id of the
\* recipe bound to the session.
\***************************************************************************
C10_SuccessfulModificationSavesNewRecipe ==
    (/\ response.kind = "returned"
     /\ response.success = "True"
     /\ response.handler \in ConvertDietHandlers
                                \cup {"_handle_scale_recipe", "_handle_serving_adjustment"}) =>
        /\ Len(recipes) = Len(before.recipes) + 1
        /\ SubSeq(recipes, 1, Len(before.recipes)) = before.recipes
        /\ response.new_recipe_id = Len(recipes)
        /\ response.new_recipe_id # session.recipe_id

\* C10, reached: a scale command has reported success and the table holds
\* one more row, whose id the response carries
C10_ScaledRecipeSaved ==
    /\ response.handler = "_handle_scale_recipe"
    /\ response.success = "True"
    /\ Len(recipes) = Len(before.recipes) + 1
    /\ response.new_recipe_id = Len(recipes)

\***************************************************************************
\* C11: no request changes the stored recipe a session is bound to: in
\* every step, the row of the Recipe table with the session's recipe id is
\* after the step what it was before it, so it stays what it was when the
\* session was created.
\***************************************************************************
C11_BoundRecipeNeverChanges ==
    [][session.id # 0 => recipes'[session.recipe_id] = recipes[session.recipe_id]]_vars

\* C11, reached: a modification has been saved while the session exists, and
\* the session's row is what it was before that request
C11_SavedBesideBoundRecipe ==
    /\ session.id # 0
    /\ response.success = "True"
    /\ Len(recipes) = Len(before.recipes) + 1
    /\ recipes[session.recipe_id] = before.recipes[session.recipe_id]

\***************************************************************************
\* C12. Commands for one session are serialized: 'next' requests issued
\* concurrently on an unfinished session leave the session row where the
\* same requests run one after the other would leave it, so no interleaving
\* loses an update to the step position. (Stated on recipes whose steps
\* carry pairwise different texts, where the position is unambiguous.)
\***************************************************************************
RECURSIVE next_steps(_, _, _)
next_steps(s, recipe, n) ==
    IF n = 0 THEN s ELSE next_steps(next_step_session(s, recipe), recipe, n - 1)

DistinctSteps(recipe) ==
    \A i, j \in DOMAIN StepsInOrder(recipe) :
        StepsInOrder(recipe)[i] = StepsInOrder(recipe)[j] => i = j

C12_ConcurrentAdvancesAreSerialized ==
    (/\ \A r \in Requests : inflight.pc[r] = "done"
     /\ inflight.base.is_active
     /\ DistinctSteps(BoundRecipe))
    => session = next_steps(inflight.base, BoundRecipe, MaxRequests)

\***************************************************************************
\* C13. For a command dispatched to the serving adjustment the target
\* serving count is the explicit N when an '<N> serving|servings|people|
\* person' pattern is present (also when 'double' or 'half' occurs in the
\* same command), otherwise twice the current servings for 'double',
\* otherwise max(1, current \div 2) for 'half'.
\*   C13_TargetNeverZero        ... and whenever one of the three applies the
\*                              target is not zero
\*   C13_TargetZeroOnlyWhenAsked ... and the target is zero only when the
\*                              explicit N is itself zero; the doubled and
\*                              the halved count are never zero
\***************************************************************************
TargetComputed == applied.fn = "_handle_serving_adjustment"

HasCount == serving_match(lower(icommand))
SaysDouble == In("double", lower(icommand))
SaysHalf == In("half", lower(icommand))
ExplicitCount == int(serving_group(lower(icommand)))
Current == recipes[1].servings

TargetAsStated ==
    /\ HasCount => applied.result = ExplicitCount
    /\ ~HasCount /\ SaysDouble => applied.result = 2 * Current
    /\ ~HasCount /\ ~SaysDouble /\ SaysHalf =>
           applied.result = (IF Current \div 2 >= 1 THEN Current \div 2 ELSE 1)

C13_TargetNeverZero ==
    TargetComputed =>
        /\ TargetAsStated
        /\ (HasCount \/ SaysDouble \/ SaysHalf) => applied.result # 0

C13_TargetZeroOnlyWhenAsked ==
    TargetComputed =>
        /\ TargetAsStated
        /\ (HasCount \/ SaysDouble \/ SaysHalf) =>
               (applied.result = 0 <=> (HasCount /\ ExplicitCount = 0))

\* 'half' halves 3 servings to 1 and keeps 1 serving at 1, and an explicit
\* count wins over 'double'
C13_HalfOfThreeIsOne ==
    /\ TargetComputed
    /\ icommand = "Half the serving"
    /\ Current = 3
    /\ applied.result = 1

\***************************************************************************
\* C14. Every command that does not match the removal pattern and contains
\* a dietary keyword (vegan, vegetarian, gluten-free, dairy-free, or the
\* spaced 'gluten free', 'dairy free') anywhere in its text is dispatched to
\* a dietary conversion of a kind whose keyword it contains.
\***************************************************************************
KindOf(keyword) ==
    IF keyword = "gluten free" THEN "gluten-free"
    ELSE IF keyword = "dairy free" THEN "dairy-free"
    ELSE keyword

C14_DietaryKeywordAnywhereConverts ==
    (iroute # NoRoute) =>
        LET command_lower == strip(lower(icommand))
            present == {k \in DietaryKeywords : In(k, command_lower)} IN
        (~remove_match(command_lower) /\ present # {}) =>
            /\ iroute.handler \in ConvertDietHandlers
            /\ iroute.arg \in {KindOf(k) : k \in present}

\***************************************************************************
\* C15. When a command dispatched to a dietary conversion also contains a
\* serving-count pattern '<N> serving|servings|people|person', the
\* modification request built for it has target servings N.
\***************************************************************************
C15_ConversionTargetsExplicitCount ==
    (applied.fn \in ConvertDietHandlers /\ HasCount) =>
        applied.result.target_servings = ExplicitCount

\***************************************************************************
\* C16. Every phrase of the exact-phrase lexicon, given verbatim after
\* lowercasing and trimming, is dispatched to the handler of its listed
\* intent.
\***************************************************************************
Lexicon ==
    {<<"next", "_handle_next_step">>, <<"next step", "_handle_next_step">>,
     <<"continue", "_handle_next_step">>,
     <<"repeat", "_handle_repeat_step">>, <<"say again", "_handle_repeat_step">>,
     <<"repeat step", "_handle_repeat_step">>,
     <<"pause", "_handle_pause">>, <<"stop", "_handle_pause">>,
     <<"resume", "_handle_resume">>, <<"continue cooking", "_handle_resume">>,
     <<"time", "_handle_time_query">>, <<"how long", "_handle_time_query">>,
     <<"timer", "_handle_time_query">>,
     <<"ingredients", "_handle_ingredients_query">>,
     <<"what ingredients", "_handle_ingredients_query">>,
     <<"what prep", "_handle_prep_query">>, <<"prep", "_handle_prep_query">>,
     <<"preparation", "_handle_prep_query">>,
     <<"start timer", "_handle_start_timer">>,
     <<"pause timer", "_handle_pause_timer">>,
     <<"resume timer", "_handle_resume_timer">>,
     <<"restart timer", "_handle_resume_timer">>,
     <<"continue timer", "_handle_resume_timer">>}

C16_LexiconPhrasesClassified ==
    (iroute # NoRoute) =>
        \A entry \in Lexicon :
            strip(lower(icommand)) = entry[1] => iroute.handler = entry[2]

\***************************************************************************
\* C17. A command that matches no classification tier is handled as
\* unknown: the request returns the fixed help text that lists the
\* supported commands (after echoing the command), does not raise, and
\* leaves the session row and every stored recipe as they were.
\***************************************************************************
HelpText ==
    "'. Try saying 'next', 'repeat', 'what prep', 'pause', 'resume', 'start timer', 'pause timer', 'resume timer', or 'timer info'."

MatchesNoTier(command) ==
    LET command_lower == strip(lower(command)) IN
    /\ ~remove_match(command_lower)
    /\ ~\E keyword \in outer_dietary_keywords \cup serving_keywords : In(keyword, command_lower)
    /\ phrase_handler(command_lower).tier # "phrase"

C17_UnknownCommandGetsHelp ==
    /\ \A c \in SessionCommands :
           MatchesNoTier(c) => RouteOf[c].handler = "_handle_unknown_command"
    /\ response.handler = "_handle_unknown_command" =>
           /\ response.kind = "returned"
           /\ \E c \in SessionCommands :
                  /\ MatchesNoTier(c)
                  /\ response.response = "I didn't understand '" \o strip(lower(c)) \o HelpText
           /\ session = before.session
           /\ recipes = before.recipes

\* an unknown command handled in the middle of the cook phase
C17_UnknownDuringCooking ==
    /\ response.handler = "_handle_unknown_command"
    /\ response.kind = "returned"
    /\ session.current_phase = "cook"
    /\ session.is_active
    /\ session = before.session

\***************************************************************************
\* C18. The duration extractor returns nothing or an integer N with
\* 0 < N <= 300: the first duration of the text that lies in that range,
\* durations out of range being passed over. 'Simmer for 12 minutes' gives
\* 12, 'cook for 1 min' gives 1, 'bake for 301 minutes', '0 minutes' and
\* 'Preheat oven to 400 degrees' give nothing, and a text whose first
\* duration is out of range and whose later one is in range gives the later
\* one.
\***************************************************************************
\* the durations of a text: where a whole number followed by a minute unit starts
DurationStarts(s) ==
    {i \in PatternStarts(s, <<>>, "min") : i = 1 \/ ~IsDigit(CharAt(s, i - 1))}

DurationAt(s, i) == int(SubSeq(s, i, DigitsEnd(s, i) - 1))

FirstDurationInRange(instruction) ==
    LET s == lower(instruction)
        ok == {i \in DurationStarts(s) : 0 < DurationAt(s, i) /\ DurationAt(s, i) <= 300} IN
    IF ok = {} THEN 0 ELSE DurationAt(s, Min(ok))

C18_FirstDurationInRange ==
    (applied.fn = "_detect_timer_in_instruction" /\ applied.instruction # None) =>
        /\ ~applied.raised
        /\ applied.result = 0 \/ (0 < applied.result /\ applied.result <= 300)
        /\ applied.instruction = "Simmer for 12 minutes" => applied.result = 12
        /\ applied.instruction = "cook for 1 min" => applied.result = 1
        /\ applied.instruction \in {"bake for 301 minutes", "0 minutes",
                                    "Preheat oven to 400 degrees"} => applied.result = 0
        /\ applied.result = FirstDurationInRange(applied.instruction)

\***************************************************************************
\* C19. The duration extractor is total: a 'start timer' or 'timer info'
\* command on a session without a current step (a session started on a
\* recipe with no prep steps) does not raise; it returns the response that
\* says the step has no timer.
\***************************************************************************
C19_TimerCommandsWithoutStep ==
    (response.handler \in {"_handle_timer_info", "_handle_start_timer"}
        /\ session.current_step = None) =>
        /\ response.kind = "returned"
        /\ response.response \in
               {"The current step doesn't require a timer. If you need to time something manually, you can use your own timer or ask me to help with timing.",
                "The current step doesn't have a timer requirement. You can start the timer manually from the timer component."}

\***************************************************************************
\* C20. The local transform is the identity under neutral arguments: with
\* an empty substitution list and no scaling the returned recipe equals the
\* input in every field, and with an empty substitution list and scaling
\* factor 1.0 every ingredient amount (as a quantity) and the servings
\* equal the input's.
\***************************************************************************
SameQuantity(a, b) ==
    IF a # None /\ b # None /\ has_number(a) /\ has_number(b)
    THEN first_number(a) = first_number(b)
    ELSE a = b

C20_NeutralTransformIsIdentity ==
    (applied.fn = "_manual_recipe_modification" /\ applied.substitutions = <<>>) =>
        /\ applied.scaling_factor = NoFactor => applied.result = applied.original_recipe
        /\ applied.scaling_factor = <<1, 1>> =>
               /\ applied.result.servings = applied.original_recipe.servings
               /\ \A i \in DOMAIN applied.original_recipe.ingredients :
                      SameQuantity(applied.result.ingredients[i].amount,
                                   applied.original_recipe.ingredients[i].amount)

\***************************************************************************
\* C21. A time query reports the sum of the time estimates of the steps of
\* the current phase from the current step (inclusive) to the last step of
\* the phase; steps already passed are not included. Stated for a session
\* of a recipe with a prep step that k 'next' commands have walked to
\* step k + 1 of its steps, repeated instruction texts included.
\***************************************************************************
RECURSIVE RemainingMinutes(_, _)
\* minutes of the steps of phase after the first `passed` ones
RemainingMinutes(phase, passed) ==
    IF passed >= Len(phase) THEN 0
    ELSE phase[Len(phase)].time_estimate
             + RemainingMinutes(SubSeq(phase, 1, Len(phase) - 1), passed)

C21_TimeQuerySumsRemainingSteps ==
    LET p == Len(BoundRecipe.prep_phase)
        c == Len(BoundRecipe.cook_phase)
        k == before.nAdvance
    IN (response.handler = "_handle_time_query" /\ before.onlyAdvance
            /\ p >= 1 /\ k < p + c) =>
           response.response =
               IF k < p
               THEN "Prep phase: " \o str(RemainingMinutes(BoundRecipe.prep_phase, k))
                        \o " minutes remaining"
               ELSE "Cooking phase: " \o str(RemainingMinutes(BoundRecipe.cook_phase, k - p))
                        \o " minutes remaining"

\***************************************************************************
\* C22. A 'next' handled in phase prep when no further prep step remains
\* (the session is on the last prep step, or the recipe has no prep step)
\* moves the session to phase cook at the first cook step if the recipe has
\* cook steps, and otherwise finishes it, inactive and not labelled cook.
\* Stated for sessions walked by 'next' commands only, on recipes that
\* have a step and whose steps carry pairwise different texts.
\***************************************************************************
C22_AdvanceLeavesPrep ==
    LET p == Len(BoundRecipe.prep_phase)
        c == Len(BoundRecipe.cook_phase)
    IN (/\ response.handler = "_handle_next_step"
        /\ before.onlyAdvance
        /\ DistinctSteps(BoundRecipe)
        /\ p + c > 0
        /\ before.session.current_phase = "prep"
        /\ before.session.is_active
        /\ p = 0 \/ before.nAdvance = p - 1)
       => IF c > 0
          THEN /\ session.current_phase = "cook"
               /\ session.current_step = BoundRecipe.cook_phase[1].instruction
               /\ session.is_active
          ELSE /\ ~session.is_active
               /\ session.current_phase # "cook"

\***************************************************************************
\* C23. Recipe transforms never change the recipe they are given: after
\* apply_adjusted_recipe (the step of the serving adjustment that carries
\* the adjusted amounts over) the recipe object that was passed in has the
\* ingredient amounts (as quantities), units and servings it had before.
\***************************************************************************
C23_InputRecipeKept ==
    applied.fn = "apply_adjusted_recipe" =>
        /\ applied.recipe.servings = applied.original_recipe.servings
        /\ \A i \in DOMAIN applied.original_recipe.ingredients :
               /\ SameQuantity(applied.recipe.ingredients[i].amount,
                               applied.original_recipe.ingredients[i].amount)
               /\ applied.recipe.ingredients[i].unit
                      = applied.original_recipe.ingredients[i].unit

\***************************************************************************
\* C24. Applying substitutions replaces exactly the ingredients whose name
\* equals (case-sensitive) some substitution's original_name: such an
\* ingredient takes a substitute's name, amount and unit and keeps its
\* existing notes, with a note 'substituted for <original>' added; every
\* other ingredient keeps its name, unit and notes; the number and order of
\* ingredients are preserved.
\***************************************************************************
Transformed == applied.fn = "_manual_recipe_modification"

NamedBy(name) ==
    {i \in DOMAIN applied.substitutions : applied.substitutions[i].original_name = name}

C24_SubstitutedIngredients ==
    Transformed =>
        LET old == applied.original_recipe.ingredients
            new == applied.result.ingredients IN
        /\ Len(new) = Len(old)
        /\ \A i \in DOMAIN old :
               IF NamedBy(old[i].name) # {}
               THEN /\ \E j \in NamedBy(old[i].name) :
                          /\ new[i].name = applied.substitutions[j].substitute_name
                          /\ new[i].amount = applied.substitutions[j].substitute_amount
                          /\ new[i].unit = applied.substitutions[j].substitute_unit
                    /\ In("substituted for " \o lower(old[i].name), lower(new[i].notes))
                    /\ old[i].notes # None => In(old[i].notes, new[i].notes)
               ELSE /\ new[i].name = old[i].name
                    /\ new[i].unit = old[i].unit
                    /\ new[i].notes = old[i].notes

\***************************************************************************
\* C25. Applying substitutions rewrites every prep and cook instruction by
\* replacing each occurrence of original_name with substitute_name, taking
\* the substitutions in list order on the text as rewritten so far (an
\* earlier entry takes precedence, a later entry sees the earlier ones'
\* output); the number and order of steps and each step's time estimate,
\* category, step number and parallel tasks are unchanged.
\***************************************************************************
RECURSIVE RewrittenBy(_, _, _)
\* the text after the first n substitutions of the list, in list order
RewrittenBy(text, substitutions, n) ==
    IF n = 0 THEN text
    ELSE replace(RewrittenBy(text, substitutions, n - 1),
                 substitutions[n].original_name, substitutions[n].substitute_name)

StepsRewritten(old, new) ==
    /\ Len(new) = Len(old)
    /\ \A i \in DOMAIN old :
           /\ new[i] = [old[i] EXCEPT !.instruction = new[i].instruction]
           /\ new[i].instruction =
                  RewrittenBy(old[i].instruction, applied.substitutions,
                              Len(applied.substitutions))

C25_InstructionsRewrittenInListOrder ==
    Transformed =>
        /\ StepsRewritten(applied.original_recipe.prep_phase, applied.result.prep_phase)
        /\ StepsRewritten(applied.original_recipe.cook_phase, applied.result.cook_phase)

\* a later entry rewrote the output of an earlier one
C25_LaterEntrySawRewrittenText ==
    /\ Transformed
    /\ Len(applied.substitutions) = 2
    /\ applied.substitutions[1].substitute_name = applied.substitutions[2].original_name
    /\ Len(applied.original_recipe.prep_phase) > 0
    /\ applied.original_recipe.prep_phase[1].instruction = "Chop the onions"
    /\ applied.result.prep_phase[1].instruction = "Chop the shallots"

\***************************************************************************
\* C26. In every reachable state of an unfinished session of a recipe that
\* has a step, phase label and current step agree: the current step is the
\* instruction of a step of the bound recipe's list for the current phase.
\***************************************************************************
PhaseSteps ==
    IF session.current_phase = "prep" THEN BoundRecipe.prep_phase
    ELSE IF session.current_phase = "cook" THEN BoundRecipe.cook_phase
    ELSE <<>>

C26_PhaseAndStepAgree ==
    (/\ session.id # 0
     /\ ~completed
     /\ Len(BoundRecipe.prep_phase) + Len(BoundRecipe.cook_phase) > 0)
    => \E i \in DOMAIN PhaseSteps : PhaseSteps[i].instruction = session.current_step

\***************************************************************************
\* C27. The is_complete flag a 'next' command returns is true if and only
\* if the session has finished its last step; in particular a 'next' after
\* a 'pause', on a session that still has steps left, returns false.
\* Stated for recipes that have a prep step.
\***************************************************************************
C27_IsCompleteMeansFinished ==
    (response.handler = "_handle_next_step" /\ Len(BoundRecipe.prep_phase) > 0) =>
        (response.is_complete = "True" <=> completed)

\***************************************************************************
\* C28. Read-only commands leave the session untouched: repeat, the time,
\* ingredients and prep queries, timer info, and start, pause and resume
\* timer never change the session's phase, current step or active flag.
\***************************************************************************
ReadOnlyHandlers ==
    {"_handle_repeat_step", "_handle_time_query", "_handle_ingredients_query",
     "_handle_prep_query", "_handle_timer_info", "_handle_start_timer",
     "_handle_pause_timer", "_handle_resume_timer"}

C28_ReadOnlyCommandsKeepSession ==
    response.handler \in ReadOnlyHandlers =>
        /\ session.current_phase = before.session.current_phase
        /\ session.current_step = before.session.current_step
        /\ session.is_active = before.session.is_active

\* a timer command handled on an active session in its cook phase
C28_TimerStartedWhileCooking ==
    /\ response.handler = "_handle_start_timer"
    /\ response.kind = "returned"
    /\ session.current_phase = "cook"
    /\ session.is_active
    /\ session = before.session

\***************************************************************************
\* C29. When two substitutions of the list name the same original_name,
\* ingredients and instructions are rewritten with the same substitute, the
\* earlier entry's: the ingredient of that name is replaced by the first
\* such substitution's substitute, as the instructions are.
\***************************************************************************
FirstNaming(name) == applied.substitutions[Min(NamedBy(name))]

C29_SameOriginalUsesEarlierEntry ==
    Transformed =>
        \A i \in DOMAIN applied.original_recipe.ingredients :
            LET name == applied.original_recipe.ingredients[i].name IN
            NamedBy(name) # {} =>
                /\ applied.result.ingredients[i].name = FirstNaming(name).substitute_name
                /\ applied.result.ingredients[i].amount = FirstNaming(name).substitute_amount
                /\ applied.result.ingredients[i].unit = FirstNaming(name).substitute_unit

\***************************************************************************
\* C30. No command that scales a recipe down targets or announces zero
\* servings: when a scale-down of a recipe with at least 1 serving has
\* succeeded, the target named in the response is at least 1 and equals the
\* serving count of the recipe that was saved. The saved recipe is the one
\* the program rebuilt itself (the service's reply was not usable), so its
\* serving count is the program's own.
\***************************************************************************
ScaledDown ==
    /\ response.handler = "_handle_scale_recipe"
    /\ llmRun[3] # "ok"
    /\ response.kind = "returned"
    /\ response.success = "True"
    /\ before.recipes[before.session.recipe_id].servings >= 1
    /\ response.new_servings < before.recipes[before.session.recipe_id].servings

C30_ScaleDownNeverZero ==
    ScaledDown =>
        /\ response.new_servings >= 1
        /\ recipes[response.new_recipe_id].servings = response.new_servings

====
